---- MODULE Spec2Model ----
(***************************************************************************)
(* A model of jmclient's direct_send (src/src/jmclient/example.py): one    *)
(* invocation of the direct on-chain payment pipeline, from the sanity     *)
(* checks to the return value.  The function is single-threaded and        *)
(* synchronous; it is cut into stages at the calls it makes to its         *)
(* collaborators (wallet service, signer, confirmation provider,           *)
(* blockchain interface), whose answers are the nondeterministic inputs of *)
(* the stage that makes the call.  Every collaborator call is appended to  *)
(* the log `calls` in program order.                                       *)
(***************************************************************************)
EXTENDS Integers, Sequences, FiniteSets, Bags, TLC

(***************************************************************************)
(* Bounds of the model.                                                    *)
(***************************************************************************)
MaxDests == 2        \* longest dest_and_amounts list
MaxUtxos == 2        \* most utxos the wallet returns or selects

(***************************************************************************)
(* Program constants.                                                      *)
(***************************************************************************)
FIDELITY_BOND_MIXDEPTH == 0
RefInputs == 8                  \* the "8 inputs to be conservative"
TxVersion == 2
\* nSequence values are held as their distance below 0xffffffff, which is
\* beyond the integers of the model checker: 0 is the final sequence number
\* the assembler sets, 2 is 0xffffffff - 2
FinalSequenceGap == 0
RbfSequenceGap == 2

(***************************************************************************)
(* Python values.  None is the string "None"; the return value of the call *)
(* is one of the strings of ReturnValues, "raise" standing for an uncaught *)
(* exception and "running" for a call that has not returned yet.           *)
(***************************************************************************)
None == "None"
ReturnValues == {"running", "None", "False", "txid", "tx", "psbt", "raise"}

(***************************************************************************)
(* The small sets the arguments are drawn from.                            *)
(***************************************************************************)
\* "addrA" is an address of a script type the wallet handles, "addrU" a valid
\* address of a type it does not, "BURN" the burn marker
Entries == {<<"addrA", 1>>, <<"addrU", 2>>, <<"addrA", 0>>, <<"addrU", 0>>,
            <<"BURN", 0>>, <<"BURN", 1>>}
ChangeAddrs == {None, "chgS", "chgU"}
MixDepths == {0, 1}
Requests == UNION {[1..n -> Entries] : n \in 0..MaxDests}

\* ill-formed arguments: "badaddr" is no valid address
EntriesInvalid == {<<"badaddr", 1>>, <<"addrA", -1>>}
RequestsValidation ==
  UNION {[1..n -> Entries \cup EntriesInvalid] : n \in 0..MaxDests}

(***************************************************************************)
(* Collaborators that are pure functions of their argument.                *)
(***************************************************************************)
validate_address(addr) == addr \in {"addrA", "addrU", "chgS", "chgU"}

is_burn_destination(destination) == destination = "BURN"

\* the script type of an address, None when the wallet code does not handle it
get_outtype(addr) ==
  CASE addr = "addrA" -> "p2wpkh"
    [] addr = "chgS" -> "p2sh-p2wpkh"
    [] OTHER -> None

get_txtype == "p2wpkh"

get_internal_addr(md) == "chgInternal"

InWeight(t) ==
  CASE t = "p2wpkh" -> 1
    [] t = "p2sh-p2wpkh" -> 2
    [] OTHER -> 3

OutWeight(t) ==
  CASE t = "p2wpkh" -> 1
    [] t = "p2sh-p2wpkh" -> 2
    [] OTHER -> 2

RECURSIVE SumWeights(_, _, _)
SumWeights(types, n, kind) ==
  IF n = 0 THEN 0
  ELSE SumWeights(types, n - 1, kind)
       + (IF kind = "in" THEN InWeight(types[n]) ELSE OutWeight(types[n]))

\* estimate_tx_fee(ins, outs, txtype=, outtype=): txtype and outtype are
\* sequences here; a caller that passes one type for all inputs passes
\* Repeat(type, ins), one that passes a single outtype passes <<outtype>>.
estimate_tx_fee(ins, outs, txtype, outtype) ==
  1 + SumWeights(txtype, ins, "in") + SumWeights(outtype, outs, "out")

Repeat(t, n) == [i \in 1..n |-> t]

(***************************************************************************)
(* Utxos.  A utxo map is a sequence of records (the index is the           *)
(* outpoint); `path` is the derivation path of the utxo's script.          *)
(***************************************************************************)
UtxoKinds ==
  << [value |-> 1,  script |-> "p2wpkh",      path |-> <<"external", 0>>],
     [value |-> 15, script |-> "p2sh-p2wpkh", path |-> <<"external", 1>>],
     [value |-> 15, script |-> "p2wsh",       path |-> <<"timelock", 0, 3>>],
     [value |-> 15, script |-> "p2wsh",       path |-> <<"timelock", 1, 7>>] >>

is_timelocked_path(path) == path[1] = "timelock"

\* the utxo maps a wallet can hold in one mixdepth: time-locked scripts exist
\* only in the fidelity-bond mixdepth of a fidelity-bond wallet
WalletUtxos(fb, md) ==
  LET kinds == IF fb /\ md = FIDELITY_BOND_MIXDEPTH
               THEN DOMAIN UtxoKinds
               ELSE {k \in DOMAIN UtxoKinds : ~is_timelocked_path(UtxoKinds[k].path)}
      idx == UNION {[1..n -> kinds] : n \in 0..MaxUtxos}
  IN {[i \in DOMAIN s |-> UtxoKinds[s[i]]] :
        s \in {t \in idx : \A i, j \in DOMAIN t : i < j => t[i] <= t[j]}}

\* how many inputs beyond the reference count a selection can hold
ExtraInputs == 1

\* the utxo maps of a mixdepth that holds many small utxos, none time-locked
ManyUtxos ==
  LET kinds == {k \in DOMAIN UtxoKinds : ~is_timelocked_path(UtxoKinds[k].path)}
      idx == UNION {[1..n -> kinds] : n \in 1..(RefInputs + ExtraInputs)}
  IN {[i \in DOMAIN s |-> UtxoKinds[s[i]]] :
        s \in {t \in idx : \A i, j \in DOMAIN t : i < j => t[i] <= t[j]}}

RECURSIVE SumValues(_, _)
SumValues(us, n) == IF n = 0 THEN 0 ELSE SumValues(us, n - 1) + us[n].value

\* sum([va['value'] for u, va in utxos.items()])
total_value(us) == SumValues(us, Len(us))

\* get_utxo_scripts(wallet, utxos)
get_utxo_scripts(us) == [i \in DOMAIN us |-> us[i].script]

\* compute_tx_locktime(): a block height, at most the current height
CurrentHeight == 5
BaseLocktimes == {CurrentHeight - 1, CurrentHeight}

(***************************************************************************)
(* State: the arguments of the call, the locals of direct_send, and what   *)
(* an observer of the call sees (collaborator calls, return value).        *)
(***************************************************************************)
VARIABLES
  wallet_fb,            \* isinstance(wallet_service.wallet, FidelityBondMixin)
  mixdepth, dest_and_amounts, answeryes,
  accept_callback,      \* TRUE iff a callback is supplied (not None)
  return_transaction, with_final_psbt, optin_rbf,
  custom_change_addr, change_label,
  is_sweep, outtypes, total_outputs_val, destination, amount,
  utxos, initial_fee_est, fee_est, total_inputs_val, changeval, outs,
  change_addr, base_locktime, tx_locktime, tx, inscripts, actual_amount,
  pc,                   \* the stage the call has reached
  result,               \* the value returned, see ReturnValues
  exit_at,              \* the exit the call took, "" while running
  calls,                \* collaborator calls so far with what each returned,
                        \* in program order
  select_amount,        \* the amount passed to select_utxos, -1 if not called
  accept_args           \* the arguments passed to accept_callback, <<>> if not called

args == <<wallet_fb, mixdepth, dest_and_amounts, answeryes, accept_callback,
          return_transaction, with_final_psbt, optin_rbf, custom_change_addr,
          change_label>>
validated == <<is_sweep, outtypes, total_outputs_val, destination, amount>>
planned == <<utxos, initial_fee_est, fee_est, total_inputs_val, changeval, outs,
             change_addr, select_amount>>
assembled == <<base_locktime, tx_locktime, tx, inscripts>>
observed == <<pc, result, exit_at, calls, accept_args>>
vars == <<args, validated, planned, assembled, actual_amount, observed>>

Unbound == "unbound"    \* a local that no statement has assigned yet

\* the locals and the observer's view when the call starts
InitLocals ==
  /\ is_sweep = FALSE
  /\ outtypes = <<>>
  /\ total_outputs_val = 0
  /\ destination = Unbound
  /\ amount = 0
  /\ utxos = <<>>
  /\ initial_fee_est = 0
  /\ fee_est = 0
  /\ total_inputs_val = 0
  /\ changeval = 0
  /\ outs = <<>>
  /\ change_addr = Unbound
  /\ base_locktime = 0
  /\ tx_locktime = 0
  /\ tx = [vin |-> <<>>, vout |-> EmptyBag, nLockTime |-> 0, nVersion |-> 0]
  /\ inscripts = <<>>
  /\ actual_amount = 0
  /\ pc = "start"
  /\ result = "running"
  /\ exit_at = ""
  /\ calls = <<>>
  /\ select_amount = -1
  /\ accept_args = <<>>

\* a call with well-formed arguments: every combination of the flags
Init ==
  /\ wallet_fb \in BOOLEAN
  /\ mixdepth \in MixDepths
  /\ dest_and_amounts \in Requests
  /\ answeryes \in BOOLEAN
  /\ accept_callback \in BOOLEAN
  /\ return_transaction \in BOOLEAN
  /\ with_final_psbt \in BOOLEAN
  /\ optin_rbf \in BOOLEAN
  /\ custom_change_addr \in ChangeAddrs
  /\ change_label \in {None, "label"}
  /\ InitLocals

\* a call with well-formed or ill-formed arguments; the keyword arguments that
\* no sanity check reads are left at their defaults, but for with_final_psbt
InitValidation ==
  /\ wallet_fb \in BOOLEAN
  /\ mixdepth \in MixDepths
  /\ dest_and_amounts \in RequestsValidation
  /\ answeryes \in BOOLEAN
  /\ accept_callback = FALSE
  /\ return_transaction = FALSE
  /\ with_final_psbt \in BOOLEAN
  /\ optin_rbf = TRUE
  /\ custom_change_addr \in ChangeAddrs \cup {"badaddr"}
  /\ change_label = None
  /\ InitLocals

\* a payment, signed raw, from a wallet that is no fidelity-bond wallet
InitFee ==
  /\ wallet_fb = FALSE
  /\ mixdepth = 0
  /\ dest_and_amounts
       \in UNION {[1..n -> {<<"addrA", 1>>, <<"addrU", 2>>}] : n \in 1..MaxDests}
  /\ answeryes \in BOOLEAN
  /\ accept_callback \in BOOLEAN
  /\ return_transaction = FALSE
  /\ with_final_psbt = FALSE
  /\ optin_rbf = TRUE
  /\ custom_change_addr \in ChangeAddrs
  /\ change_label = None
  /\ InitLocals

\* an entry of the log: collaborator function fn returned ret
Call(fn, ret) == [fn |-> fn, ret |-> ret]

\* leave the call: return `value` (or raise, value = "raise") at exit `why`
Exit(value, why) ==
  /\ pc' = "done"
  /\ result' = value
  /\ exit_at' = why

(***************************************************************************)
(* Lines 40-89: the sanity checks and the loop over dest_and_amounts.      *)
(* LoopBody is one iteration; its `exit` is "assert" when an assertion of  *)
(* the iteration fails, "burn" when one of the four burn checks returns.   *)
(***************************************************************************)
\* SweepAssert without the check of the number of destinations
SweepAssertChangeOnly == custom_change_addr = None

\* lines 58-59, the assertion of a zero amount
SweepAssert == custom_change_addr = None /\ Len(dest_and_amounts) = 1

\* BurnPermitted without the check of answeryes
BurnPermittedUnconfirmed(amt) ==
  /\ wallet_fb
  /\ mixdepth = FIDELITY_BOND_MIXDEPTH
  /\ amt = 0

\* lines 65-79: none of the four burn checks returns
BurnPermitted(amt) ==
  /\ wallet_fb
  /\ ~answeryes
  /\ mixdepth = FIDELITY_BOND_MIXDEPTH
  /\ amt = 0

LoopBody(st, target) ==
  LET dest == target[1]
      amt == target[2]
      sweep == st.is_sweep \/ amt = 0
  IN IF ~(validate_address(dest) \/ is_burn_destination(dest))
       THEN [st EXCEPT !.exit = "assert"]
     ELSE IF amt = 0 /\ ~SweepAssert
       THEN [st EXCEPT !.exit = "assert"]
     ELSE IF ~(amt >= 0)
       THEN [st EXCEPT !.exit = "assert", !.is_sweep = sweep]
     ELSE IF is_burn_destination(dest) /\ ~BurnPermitted(amt)
       THEN [st EXCEPT !.exit = "burn", !.is_sweep = sweep]
     ELSE [exit |-> "ok",
           is_sweep |-> sweep,
           outtypes |-> Append(st.outtypes, get_outtype(dest)),
           total_outputs_val |-> st.total_outputs_val + amt,
           destination |-> dest,
           amount |-> amt]

RECURSIVE Loop(_, _)
Loop(st, i) ==
  IF i > Len(dest_and_amounts) \/ st.exit # "ok" THEN st
  ELSE Loop(LoopBody(st, dest_and_amounts[i]), i + 1)

\* SanityChecks without the check of the custom change address
SanityChecksNoChange ==
  /\ Len(dest_and_amounts) > 0
  /\ mixdepth >= 0

\* lines 45-50
SanityChecks ==
  /\ Len(dest_and_amounts) > 0
  /\ custom_change_addr = None \/ validate_address(custom_change_addr)
  /\ mixdepth >= 0

Validate ==
  /\ pc = "start"
  /\ IF ~SanityChecks
       THEN /\ Exit("raise", "AssertionError")
            /\ UNCHANGED validated
     ELSE LET st == Loop([exit |-> "ok", is_sweep |-> FALSE, outtypes |-> <<>>,
                          total_outputs_val |-> 0, destination |-> Unbound,
                          amount |-> 0], 1)
          IN /\ CASE st.exit = "assert" -> Exit("raise", "AssertionError")
                  [] st.exit = "burn" -> Exit("None", "BurnNotPermitted")
                  [] OTHER -> /\ pc' = "validated"
                              /\ UNCHANGED <<result, exit_at>>
             /\ is_sweep' = st.is_sweep
             /\ outtypes' = st.outtypes
             /\ total_outputs_val' = st.total_outputs_val
             /\ destination' = st.destination
             /\ amount' = st.amount
  /\ UNCHANGED <<args, planned, assembled, actual_amount, calls, accept_args>>

(***************************************************************************)
(* Lines 89-144: the output plan.  A sweep spends every utxo of the        *)
(* mixdepth to the one destination; a payment selects utxos for the        *)
(* amount plus a fee estimated for RefInputs inputs, and adds a change     *)
(* output.                                                                 *)
(***************************************************************************)
\* SweepFee for the conservative input count instead of the true one
SweepFeeConservative(us) ==
  estimate_tx_fee(RefInputs, 1, Repeat(get_txtype, RefInputs), <<outtypes[1]>>)

\* lines 103-104
SweepFee(us) ==
  estimate_tx_fee(Len(us), 1, get_utxo_scripts(us), <<outtypes[1]>>)

PlanSweep ==
  /\ pc = "validated"
  /\ is_sweep
  /\ destination' = dest_and_amounts[1][1]
  /\ amount' = dest_and_amounts[1][2]
  /\ calls' = Append(calls, Call("get_utxos_by_mixdepth", "utxos"))
  /\ \E us \in WalletUtxos(wallet_fb, mixdepth) :
       /\ utxos' = us
       /\ IF us = <<>>
            THEN /\ Exit("None", "NoFunds")
                 /\ UNCHANGED <<total_inputs_val, fee_est, outs>>
          ELSE LET fee == SweepFee(us)
               IN /\ total_inputs_val' = total_value(us)
                  /\ fee_est' = fee
                  /\ outs' = <<[address |-> dest_and_amounts[1][1],
                                value |-> total_value(us) - fee]>>
                  /\ pc' = "planned"
                  /\ UNCHANGED <<result, exit_at>>
  /\ UNCHANGED <<args, is_sweep, outtypes, total_outputs_val, initial_fee_est,
                 changeval, change_addr, select_amount, assembled, actual_amount,
                 accept_args>>

\* lines 108-115
ChangeType ==
  IF custom_change_addr # None
    THEN IF get_outtype(custom_change_addr) = None
           THEN get_txtype
         ELSE get_outtype(custom_change_addr)
  ELSE get_txtype

\* lines 116-123: outtypes as passed to the fee estimator
PaymentOuttypes ==
  Append(IF outtypes[1] = None THEN [outtypes EXCEPT ![1] = ChangeType] ELSE outtypes,
         ChangeType)

\* line 129: the amount passed to select_utxos
SelectAmount(fee) == amount + fee

\* lines 132-136
\* PaymentFee that recomputes the fee for exactly the reference count too
PaymentFeeOffByOne(us, initial, otypes) ==
  IF Len(us) <= RefInputs
    THEN estimate_tx_fee(Len(us), Len(dest_and_amounts) + 1, get_utxo_scripts(us), otypes)
  ELSE initial

\* lines 132-136
PaymentFee(us, initial, otypes) ==
  IF Len(us) < RefInputs
    THEN estimate_tx_fee(Len(us), Len(dest_and_amounts) + 1, get_utxo_scripts(us), otypes)
  ELSE initial

\* ChangeVal that leaves the fee to the change output
ChangeValNoFee(inputs_val, fee, outputs_val) == inputs_val - outputs_val

\* line 138
ChangeVal(inputs_val, fee, outputs_val) == inputs_val - fee - outputs_val

\* lines 139-144
PaymentOuts(cval, caddr) ==
  Append([i \in DOMAIN dest_and_amounts |->
            [address |-> dest_and_amounts[i][1], value |-> dest_and_amounts[i][2]]],
         [address |-> caddr, value |-> cval])

\* the payment branch, the selector choosing among the utxo maps of `wallet`
PlanPaymentFrom(wallet) ==
  /\ pc = "validated"
  /\ ~is_sweep
  /\ LET otypes == PaymentOuttypes
         initial == estimate_tx_fee(RefInputs, Len(dest_and_amounts) + 1,
                                    Repeat(get_txtype, RefInputs), otypes)
     IN /\ outtypes' = otypes
        /\ initial_fee_est' = initial
        /\ select_amount' = SelectAmount(initial)
        /\ \/ \* the selector raises: the mixdepth does not hold the amount
              /\ calls' = Append(calls, Call("select_utxos", "raise"))
              /\ Exit("raise", "NotEnoughFunds")
              /\ UNCHANGED <<utxos, fee_est, total_inputs_val, changeval, outs,
                             change_addr>>
           \/ \E us \in wallet :
                /\ us # <<>>
                /\ total_value(us) >= SelectAmount(initial)
                /\ LET fee == PaymentFee(us, initial, otypes)
                       cval == ChangeVal(total_value(us), fee, total_outputs_val)
                       caddr == IF custom_change_addr = None
                                  THEN get_internal_addr(mixdepth)
                                ELSE custom_change_addr
                   IN /\ utxos' = us
                      /\ fee_est' = fee
                      /\ total_inputs_val' = total_value(us)
                      /\ changeval' = cval
                      /\ outs' = PaymentOuts(cval, caddr)
                      /\ change_addr' = caddr
                /\ calls' = Append(calls, Call("select_utxos", "utxos"))
                /\ pc' = "planned"
                /\ UNCHANGED <<result, exit_at>>
  /\ UNCHANGED <<args, is_sweep, total_outputs_val, destination, amount, assembled,
                 actual_amount, accept_args>>

PlanPayment == PlanPaymentFrom(WalletUtxos(wallet_fb, mixdepth))

\* the payment branch when the mixdepth holds many small utxos
PlanPaymentMany == PlanPaymentFrom(ManyUtxos)

(***************************************************************************)
(* Lines 146-178: the locktime and the unsigned transaction.               *)
(* make_shuffled_tx orders inputs and outputs at random: vin is held as a  *)
(* function of the outpoint and vout as a bag, which have no order.        *)
(***************************************************************************)
Max(a, b) == IF a >= b THEN a ELSE b

\* RaiseLocktime to the unlock time itself instead of the second after it
RECURSIVE RaiseLocktimeNoIncrement(_, _, _)
RaiseLocktimeNoIncrement(locktime, us, n) ==
  IF n = 0 THEN locktime
  ELSE LET before == RaiseLocktimeNoIncrement(locktime, us, n - 1)
           path == us[n].path
       IN IF ~is_timelocked_path(path) THEN before
          ELSE Max(before, path[Len(path)])

\* lines 150-155, the loop over utxos.items() up to the n-th utxo
RECURSIVE RaiseLocktime(_, _, _)
RaiseLocktime(locktime, us, n) ==
  IF n = 0 THEN locktime
  ELSE LET before == RaiseLocktime(locktime, us, n - 1)
           path == us[n].path
       IN IF ~is_timelocked_path(path) THEN before
          ELSE Max(before, path[Len(path)] + 1)

\* lines 147-155
TxLocktime(base) ==
  IF mixdepth = FIDELITY_BOND_MIXDEPTH /\ wallet_fb
    THEN RaiseLocktime(base, utxos, Len(utxos))
  ELSE base

SeqToBag(s) ==
  [o \in {s[i] : i \in DOMAIN s} |-> Cardinality({i \in DOMAIN s : s[i] = o})]

\* MakeTx that opts in to replacement whatever optin_rbf is
MakeTxAlwaysRbf(locktime) ==
  [vin |-> [u \in DOMAIN utxos |-> RbfSequenceGap],
   vout |-> SeqToBag(outs),
   nLockTime |-> locktime,
   nVersion |-> TxVersion]

\* lines 165-170
MakeTx(locktime) ==
  [vin |-> [u \in DOMAIN utxos |->
              IF optin_rbf THEN RbfSequenceGap ELSE FinalSequenceGap],
   vout |-> SeqToBag(outs),
   nLockTime |-> locktime,
   nVersion |-> TxVersion]

Assemble ==
  /\ pc = "planned"
  /\ \E base \in BaseLocktimes :
       /\ base_locktime' = base
       /\ tx_locktime' = TxLocktime(base)
       /\ tx' = MakeTx(TxLocktime(base))
  /\ inscripts' = [u \in DOMAIN utxos |-> <<utxos[u].script, utxos[u].value>>]
  /\ calls' = Append(calls, Call("compute_tx_locktime", "height"))
  /\ pc' = "assembled"
  /\ UNCHANGED <<args, validated, planned, actual_amount, result, exit_at,
                 accept_args>>

(***************************************************************************)
(* Lines 179-203: signing, by the PSBT mixin or in place.                  *)
(***************************************************************************)
\* AfterSignPsbt that goes on to the broadcast once the PSBT is signed
AfterSignPsbtBroadcast(err) ==
  IF err THEN Exit("False", "PsbtSigningFailed")
  ELSE /\ pc' = "confirmed"
       /\ UNCHANGED <<result, exit_at>>

\* lines 184-190
AfterSignPsbt(err) ==
  IF err THEN Exit("False", "PsbtSigningFailed")
  ELSE Exit("psbt", "PartialExport")

SignPsbt ==
  /\ pc = "assembled"
  /\ with_final_psbt
  /\ \E err \in BOOLEAN :
       /\ calls' = calls \o <<Call("create_psbt_from_tx", "psbt"),
                              Call("sign_psbt", IF err THEN "err" ELSE "psbt")>>
       /\ AfterSignPsbt(err)
  /\ UNCHANGED <<args, validated, planned, assembled, actual_amount, accept_args>>

SignTx ==
  /\ pc = "assembled"
  /\ ~with_final_psbt
  /\ \E success \in BOOLEAN :
       /\ calls' = Append(calls, Call("sign_tx", IF success THEN "True" ELSE "False"))
       /\ IF ~success
            THEN /\ Exit("None", "SigningFailed")
                 /\ UNCHANGED actual_amount
          ELSE /\ actual_amount' = IF amount # 0 THEN amount
                                   ELSE total_inputs_val - fee_est
               /\ pc' = "signed"
               /\ UNCHANGED <<result, exit_at>>
  /\ UNCHANGED <<args, validated, planned, assembled, accept_args>>

(***************************************************************************)
(* Lines 204-214: confirmation, skipped when answeryes.                    *)
(***************************************************************************)
\* AfterAnswer that goes on whatever the answer is
AfterAnswerIgnored(yes) ==
  /\ pc' = "confirmed"
  /\ UNCHANGED <<result, exit_at>>

\* lines 206-208 and 213-214
AfterAnswer(yes) ==
  IF ~yes THEN Exit("False", "Aborted")
  ELSE /\ pc' = "confirmed"
       /\ UNCHANGED <<result, exit_at>>

\* Provider that prompts although a callback is supplied
ProviderSwapped ==
  IF accept_callback THEN "cli_prompt_user_yesno" ELSE "accept_callback"

\* line 205: the confirmation provider consulted
Provider ==
  IF ~accept_callback THEN "cli_prompt_user_yesno" ELSE "accept_callback"

Confirm ==
  /\ pc = "signed"
  /\ IF answeryes
       THEN /\ pc' = "confirmed"
            /\ UNCHANGED <<result, exit_at, calls, accept_args>>
     ELSE /\ IF ~accept_callback
               THEN UNCHANGED accept_args
             ELSE accept_args' = <<destination, actual_amount, fee_est,
                                   custom_change_addr>>
          /\ \E yes \in BOOLEAN :
               /\ calls' = Append(calls, Call(Provider,
                                               IF yes THEN "True" ELSE "False"))
               /\ AfterAnswer(yes)
  /\ UNCHANGED <<args, validated, planned, assembled, actual_amount>>

(***************************************************************************)
(* Lines 215-232: the change label and the broadcast.  change_addr is      *)
(* assigned in the payment branch only; reading it unassigned raises.      *)
(***************************************************************************)
\* TxInfo with the two return shapes exchanged
TxInfoSwapped == IF return_transaction THEN "txid" ELSE "tx"

\* line 226
TxInfo == IF ~return_transaction THEN "txid" ELSE "tx"

Broadcast ==
  /\ pc = "confirmed"
  /\ IF change_label # None /\ change_addr = Unbound
       THEN /\ Exit("raise", "NameError")
            /\ UNCHANGED calls
     ELSE \E unknown, pushed \in BOOLEAN :
            /\ (change_label = None => ~unknown)
            /\ calls' = calls
                 \o (IF change_label = None THEN <<>>
                     ELSE <<Call("set_address_label",
                                 IF unknown THEN "UnknownAddressForLabel" ELSE "None")>>)
                 \o <<Call("pushtx", IF pushed THEN "True" ELSE "False")>>
            /\ IF pushed
                 THEN Exit(TxInfo, "Broadcast")
               ELSE Exit("False", "BroadcastFailed")
  /\ UNCHANGED <<args, validated, planned, assembled, actual_amount, accept_args>>

Next ==
  \/ Validate
  \/ PlanSweep
  \/ PlanPayment
  \/ Assemble
  \/ SignPsbt
  \/ SignTx
  \/ Confirm
  \/ Broadcast

Spec == Init /\ [][Next]_vars

SpecValidation == InitValidation /\ [][Next]_vars

\* the steps of a payment signed raw
NextFee ==
  \/ Validate
  \/ PlanPaymentMany
  \/ Assemble
  \/ SignTx
  \/ Confirm
  \/ Broadcast

SpecFee == InitFee /\ [][NextFee]_vars

(***************************************************************************)
(* Vocabulary of the properties.                                           *)
(***************************************************************************)
NumCalls(fn) == Cardinality({i \in DOMAIN calls : calls[i].fn = fn})

Returned(fn, ret) == \E i \in DOMAIN calls : calls[i] = Call(fn, ret)

RECURSIVE SumOuts(_, _)
SumOuts(os, n) == IF n = 0 THEN 0 ELSE SumOuts(os, n - 1) + os[n].value

RECURSIVE BagSum(_, _)
BagSum(b, S) ==
  IF S = {} THEN 0
  ELSE LET o == CHOOSE x \in S : TRUE
       IN o.value * b[o] + BagSum(b, S \ {o})

\* the transaction has been assembled
TxBuilt == tx.nVersion # 0

\* the greatest and the least element of a nonempty set of integers
Greatest(S) == CHOOSE m \in S : \A x \in S : x <= m
Least(S) == CHOOSE m \in S : \A x \in S : m <= x

(***************************************************************************)
(* C1: when answeryes is false and the confirmation provider (callback or  *)
(* prompt) answers no, pushtx is never called and the call returns False.  *)
(***************************************************************************)
C1_DeclineNeverBroadcasts ==
  (~answeryes /\ (\/ Returned("accept_callback", "False")
                  \/ Returned("cli_prompt_user_yesno", "False")))
    => /\ NumCalls("pushtx") = 0
       /\ pc = "done"
       /\ result = "False"

C1_Witness ==
  /\ ~answeryes
  /\ accept_callback
  /\ Returned("accept_callback", "False")
  /\ change_label # None
  /\ pc = "done"

(***************************************************************************)
(* C2: every failure exit (burn precondition, sweep without utxos, raw     *)
(* signing failure, PSBT signing failure, declined confirmation, broadcast *)
(* failure) returns the same value, False.                                 *)
(***************************************************************************)
C2_UniformFalse ==
  (pc = "done" /\ exit_at \in {"BurnNotPermitted", "NoFunds", "SigningFailed",
                               "PsbtSigningFailed", "Aborted", "BroadcastFailed"})
    => result = "False"

(***************************************************************************)
(* C3: in payment mode the outputs are the requested pairs plus exactly    *)
(* one change output, and sum(outputs) + fee = sum(selected inputs).       *)
(***************************************************************************)
C3_PaymentBalance ==
  (~is_sweep /\ outs # <<>>)
    => /\ Len(outs) = Len(dest_and_amounts) + 1
       /\ \A i \in DOMAIN dest_and_amounts :
            outs[i] = [address |-> dest_and_amounts[i][1],
                       value |-> dest_and_amounts[i][2]]
       /\ SumOuts(outs, Len(outs)) + fee_est = total_value(utxos)
       /\ TxBuilt => /\ DOMAIN tx.vin = DOMAIN utxos
                     /\ BagSum(tx.vout, BagToSet(tx.vout)) + fee_est
                          = total_value(utxos)

C3_Witness ==
  /\ ~is_sweep
  /\ TxBuilt
  /\ Len(dest_and_amounts) = 2
  /\ Len(utxos) = 2
  /\ changeval > 0

(***************************************************************************)
(* C4: in payment mode the amount passed to select_utxos is at least the   *)
(* total of all requested amounts plus the conservative fee estimate.      *)
(***************************************************************************)
C4_SelectCoversTotal ==
  NumCalls("select_utxos") > 0
    => select_amount >= total_outputs_val + initial_fee_est

(***************************************************************************)
(* C5: no transaction with a negative output value is ever assembled.      *)
(***************************************************************************)
C5_NoNegativeOutput ==
  TxBuilt => \A o \in BagToSet(tx.vout) : o.value >= 0

(***************************************************************************)
(* C6: a sweep produces exactly one output and no change, of value the sum *)
(* of all utxos of the mixdepth minus the fee estimated from the true      *)
(* input count and one output; a sweep of a mixdepth without utxos is      *)
(* rejected and builds no transaction.                                     *)
(***************************************************************************)
C6_Sweep ==
  is_sweep
    => /\ NumCalls("select_utxos") = 0
       /\ change_addr = Unbound
       /\ outs # <<>>
            => /\ Len(outs) = 1
               /\ outs[1].address = dest_and_amounts[1][1]
               /\ outs[1].value
                    = total_value(utxos)
                      - estimate_tx_fee(Len(utxos), 1, get_utxo_scripts(utxos),
                                        <<get_outtype(dest_and_amounts[1][1])>>)
               /\ fee_est = total_value(utxos) - outs[1].value
       /\ TxBuilt => /\ tx.vout = SetToBag({outs[1]})
                     /\ DOMAIN tx.vin = DOMAIN utxos
       /\ (NumCalls("get_utxos_by_mixdepth") > 0 /\ utxos = <<>>)
            => /\ pc = "done"
               /\ exit_at = "NoFunds"
               /\ result \in {"None", "False"}
               /\ outs = <<>>
               /\ ~TxBuilt

C6_Witness ==
  /\ is_sweep
  /\ TxBuilt
  /\ Len(utxos) = 2
  /\ utxos[1].script # utxos[2].script

(***************************************************************************)
(* C7: a burn request that violates a burn precondition (wallet without    *)
(* fidelity bonds, another mixdepth, answeryes, non-zero amount) never     *)
(* reaches get_utxos_by_mixdepth or select_utxos.  As stated, it is always *)
(* rejected as BurnNotPermitted (C7_AlwaysBurnNotPermitted); as amended,   *)
(* it is rejected as BurnNotPermitted exactly when no assertion fails at   *)
(* or before the first burn entry, and as InvalidRequest (a failed         *)
(* assertion) otherwise (C7_BurnRejected).                                 *)
(***************************************************************************)
BurnEntries == {i \in DOMAIN dest_and_amounts : dest_and_amounts[i][1] = "BURN"}

BurnViolated ==
  \E i \in BurnEntries :
    \/ ~wallet_fb
    \/ mixdepth # 0
    \/ answeryes
    \/ dest_and_amounts[i][2] # 0

\* no assertion of lines 45-62 fails up to and including entry n
AssertionsPassUpTo(n) ==
  /\ Len(dest_and_amounts) > 0
  /\ custom_change_addr \in {None, "chgS", "chgU"}
  /\ \A i \in 1..n :
       /\ dest_and_amounts[i][1] \in {"addrA", "addrU", "BURN"}
       /\ dest_and_amounts[i][2] >= 0
       /\ dest_and_amounts[i][2] = 0
            => (custom_change_addr = None /\ Len(dest_and_amounts) = 1)

\* C7 as stated: every such burn request ends as BurnNotPermitted
C7_AlwaysBurnNotPermitted ==
  (BurnViolated /\ pc = "done")
    => /\ exit_at = "BurnNotPermitted"
       /\ NumCalls("get_utxos_by_mixdepth") = 0
       /\ NumCalls("select_utxos") = 0

\* C7 as amended: rejected before any utxo call, as BurnNotPermitted exactly
\* when the assertions pass up to the first burn entry
C7_BurnRejected ==
  BurnViolated
    => /\ pc \in {"start", "done"}
       /\ NumCalls("get_utxos_by_mixdepth") = 0
       /\ NumCalls("select_utxos") = 0
       /\ pc = "done"
            => /\ exit_at \in {"BurnNotPermitted", "AssertionError"}
               /\ exit_at = "BurnNotPermitted"
                    <=> AssertionsPassUpTo(Least(BurnEntries))

C7_Witness ==
  /\ pc = "done"
  /\ exit_at = "BurnNotPermitted"
  /\ dest_and_amounts = <<(<<"BURN", 0>>)>>
  /\ wallet_fb
  /\ mixdepth = 0
  /\ answeryes
  /\ custom_change_addr = None

(***************************************************************************)
(* C8: with with_final_psbt the transaction is never broadcast: pushtx is  *)
(* not called whether PSBT signing succeeds or fails, the call returns the *)
(* PSBT on success and False on failure, whatever answeryes,               *)
(* accept_callback and return_transaction are.                             *)
(***************************************************************************)
C8_PsbtNeverBroadcast ==
  with_final_psbt
    => /\ NumCalls("pushtx") = 0
       /\ NumCalls("sign_tx") = 0
       /\ Returned("sign_psbt", "psbt") => (pc = "done" /\ result = "psbt")
       /\ Returned("sign_psbt", "err") => (pc = "done" /\ result = "False")
       /\ result \notin {"txid", "tx"}

C8_Witness ==
  /\ with_final_psbt
  /\ Returned("sign_psbt", "psbt")
  /\ answeryes
  /\ accept_callback
  /\ return_transaction

(***************************************************************************)
(* C9: the locktime of the transaction is strictly greater than the unlock *)
(* time of every time-locked selected input, and equals                    *)
(* max(base, greatest unlock time + 1); without a time-locked input it is  *)
(* the base height of compute_tx_locktime, at most the current height.     *)
(***************************************************************************)
TimeLocked == {i \in DOMAIN utxos : utxos[i].path[1] = "timelock"}

C9_Locktime ==
  TxBuilt
    => /\ \A i \in TimeLocked : tx.nLockTime > utxos[i].path[3]
       /\ TimeLocked # {}
            => LET unlock == Greatest({utxos[i].path[3] : i \in TimeLocked})
               IN tx.nLockTime = Greatest({base_locktime, unlock + 1})
       /\ TimeLocked = {}
            => /\ tx.nLockTime = base_locktime
               /\ base_locktime <= CurrentHeight

C9_Witness ==
  /\ TxBuilt
  /\ Cardinality({utxos[i].path[3] : i \in TimeLocked}) = 2
  /\ tx.nLockTime > base_locktime

(***************************************************************************)
(* C10: a request with a zero amount and more than one destination, or a   *)
(* zero amount and a custom change address, never reaches input retrieval, *)
(* signing or broadcast.  As stated, it is always rejected as              *)
(* InvalidRequest (C10_AlwaysInvalidRequest); as amended, it is rejected   *)
(* as InvalidRequest unless a burn destination precedes the first zero     *)
(* amount, and then as BurnNotPermitted or InvalidRequest                  *)
(* (C10_ZeroRejected).                                                     *)
(***************************************************************************)
ZeroEntries == {i \in DOMAIN dest_and_amounts : dest_and_amounts[i][2] = 0}

ZeroInvalid ==
  /\ ZeroEntries # {}
  /\ Len(dest_and_amounts) > 1 \/ custom_change_addr # None

\* C10 as stated: every such request ends in a failed assertion
C10_AlwaysInvalidRequest ==
  (ZeroInvalid /\ pc = "done")
    => /\ exit_at = "AssertionError"
       /\ calls = <<>>

\* C10 as amended: rejected before any collaborator call, by the assertion
\* unless a burn destination comes before the first zero amount
C10_ZeroRejected ==
  ZeroInvalid
    => /\ pc \in {"start", "done"}
       /\ calls = <<>>
       /\ pc = "done"
            => /\ exit_at \in {"AssertionError", "BurnNotPermitted"}
               /\ result \in {"raise", "None"}
               /\ (\A i \in BurnEntries : \E z \in ZeroEntries : z <= i)
                    => exit_at = "AssertionError"

C10_Witness ==
  /\ pc = "done"
  /\ exit_at = "AssertionError"
  /\ Len(dest_and_amounts) = 2
  /\ dest_and_amounts[2][2] = 0
  /\ dest_and_amounts[1][2] # 0
  /\ custom_change_addr = None

(***************************************************************************)
(* C11: after a successful broadcast the call returns the txid when        *)
(* return_transaction is false and the transaction when it is true; a PSBT *)
(* is returned only with with_final_psbt; a txid or a transaction is       *)
(* returned only when pushtx was called and reported success.              *)
(***************************************************************************)
C11_ReturnShape ==
  /\ Returned("pushtx", "True")
       => /\ pc = "done"
          /\ return_transaction => result = "tx"
          /\ ~return_transaction => result = "txid"
  /\ result = "psbt" => with_final_psbt
  /\ result \in {"txid", "tx"} => Returned("pushtx", "True")

C11_Witness ==
  /\ Returned("pushtx", "True")
  /\ return_transaction
  /\ result = "tx"
  /\ ~answeryes

(***************************************************************************)
(* C12: with optin_rbf every input of the assembled transaction has the    *)
(* sequence number 0xffffffff - 2; without it every input keeps the final  *)
(* sequence number the assembler set.                                      *)
(***************************************************************************)
C12_Sequence ==
  TxBuilt
    => /\ DOMAIN tx.vin = DOMAIN utxos
       /\ DOMAIN tx.vin # {}
       /\ optin_rbf => \A u \in DOMAIN tx.vin : tx.vin[u] = 2
       /\ ~optin_rbf => \A u \in DOMAIN tx.vin : tx.vin[u] = 0

C12_Witness ==
  /\ TxBuilt
  /\ ~optin_rbf
  /\ Len(utxos) = 2
  /\ \A u \in DOMAIN tx.vin : tx.vin[u] = FinalSequenceGap

(***************************************************************************)
(* C13: a request that fails a validation check (empty request, invalid    *)
(* destination, negative amount, zero amount among several destinations,   *)
(* sweep with custom change, invalid custom change address, violated burn  *)
(* precondition), the offending entry at any position, is rejected before  *)
(* get_utxos_by_mixdepth, select_utxos or any other collaborator is        *)
(* called; and no collaborator call is made twice.                         *)
(***************************************************************************)
EntryDefective(i) ==
  LET dest == dest_and_amounts[i][1]
      amt == dest_and_amounts[i][2]
  IN \/ dest \notin {"addrA", "addrU", "BURN"}
     \/ amt < 0
     \/ amt = 0 /\ (Len(dest_and_amounts) > 1 \/ custom_change_addr # None)
     \/ dest = "BURN" /\ (~wallet_fb \/ mixdepth # 0 \/ answeryes \/ amt # 0)

Defective ==
  \/ dest_and_amounts = <<>>
  \/ custom_change_addr \notin {None, "chgS", "chgU"}
  \/ \E i \in DOMAIN dest_and_amounts : EntryDefective(i)

C13_ValidationFirst ==
  /\ Defective
       => /\ pc \in {"start", "done"}
          /\ calls = <<>>
          /\ pc = "done" => /\ exit_at \in {"AssertionError", "BurnNotPermitted"}
                            /\ result \in {"raise", "None"}
  /\ exit_at \in {"AssertionError", "BurnNotPermitted"} => (Defective /\ calls = <<>>)
  /\ \A i, j \in DOMAIN calls : calls[i].fn = calls[j].fn => i = j

C13_Witness ==
  /\ pc = "done"
  /\ exit_at = "AssertionError"
  /\ Len(dest_and_amounts) = 2
  /\ ~EntryDefective(1)
  /\ dest_and_amounts[2][1] = "badaddr"
  /\ custom_change_addr = None

(***************************************************************************)
(* C14: once raw signing has succeeded and the send is confirmed (answeryes *)
(* or an accepting provider), the call ends with pushtx called exactly once *)
(* and in Broadcast or BroadcastFailed, with or without a change label,     *)
(* whether or not the labelling fails, in sweep and in payment mode.        *)
(***************************************************************************)
SignedAndConfirmed ==
  /\ Returned("sign_tx", "True")
  /\ \/ answeryes
     \/ Returned("accept_callback", "True")
     \/ Returned("cli_prompt_user_yesno", "True")

C14_LabelNeverPreventsBroadcast ==
  (pc = "done" /\ SignedAndConfirmed)
    => /\ NumCalls("pushtx") = 1
       /\ exit_at \in {"Broadcast", "BroadcastFailed"}

(***************************************************************************)
(* C15: in payment mode the output types passed to the fee estimator hold  *)
(* no unresolved entry, for any number of destinations.                    *)
(***************************************************************************)
C15_NoUnresolvedOuttype ==
  (~is_sweep /\ NumCalls("select_utxos") > 0)
    => \A i \in DOMAIN outtypes : outtypes[i] # None

(***************************************************************************)
(* C16: in payment mode the fee of the output plan is the estimate         *)
(* recomputed from the number and script types of the selected inputs when *)
(* fewer than 8 are selected, and the initial estimate for 8 inputs when 8 *)
(* or more are; the fee passed to the accept callback is that fee.         *)
(***************************************************************************)
C16_Fee ==
  (~is_sweep /\ Returned("select_utxos", "utxos"))
    => /\ initial_fee_est
            = estimate_tx_fee(8, Len(dest_and_amounts) + 1, Repeat(get_txtype, 8),
                              outtypes)
       /\ Len(utxos) < 8
            => fee_est = estimate_tx_fee(Len(utxos), Len(dest_and_amounts) + 1,
                                         get_utxo_scripts(utxos), outtypes)
       /\ Len(utxos) >= 8 => fee_est = initial_fee_est
       /\ changeval = total_inputs_val - fee_est - total_outputs_val
       /\ outs[Len(outs)].value = changeval
       /\ accept_args # <<>> => accept_args[3] = fee_est

C16_Witness ==
  /\ Len(utxos) > 8
  /\ Returned("accept_callback", "True")
  /\ accept_args[3] = initial_fee_est
  /\ initial_fee_est # estimate_tx_fee(Len(utxos), Len(dest_and_amounts) + 1,
                                       get_utxo_scripts(utxos), outtypes)

(***************************************************************************)
(* C17: confirmation is asked for at most once and only after sign_tx has  *)
(* succeeded; with answeryes neither the accept callback nor the prompt is *)
(* consulted; without it, once raw signing has succeeded, exactly one of   *)
(* them is consulted exactly once (the callback if supplied, the prompt    *)
(* otherwise), before any pushtx call.                                     *)
(***************************************************************************)
ConfirmFns == {"accept_callback", "cli_prompt_user_yesno"}

ConfirmCalls == Cardinality({i \in DOMAIN calls : calls[i].fn \in ConfirmFns})

C17_ConfirmOnce ==
  /\ ConfirmCalls <= 1
  /\ \A i \in DOMAIN calls :
       calls[i].fn \in ConfirmFns
         => /\ \E j \in 1..(i - 1) : calls[j] = [fn |-> "sign_tx", ret |-> "True"]
            /\ \A j \in 1..i : calls[j].fn # "pushtx"
  /\ answeryes => ConfirmCalls = 0
  /\ with_final_psbt => ConfirmCalls = 0
  /\ (~answeryes /\ Returned("sign_tx", "True") /\ pc \in {"confirmed", "done"})
       => /\ ConfirmCalls = 1
          /\ accept_callback => NumCalls("accept_callback") = 1
          /\ ~accept_callback => NumCalls("cli_prompt_user_yesno") = 1
  /\ NumCalls("pushtx") > 0 => (answeryes \/ ConfirmCalls = 1)

C17_Witness ==
  /\ ~answeryes
  /\ accept_callback
  /\ Returned("accept_callback", "True")
  /\ NumCalls("cli_prompt_user_yesno") = 0
  /\ NumCalls("pushtx") = 1
  /\ calls[Len(calls)].fn = "pushtx"

====
